---- MODULE Spec2Model ----
(***************************************************************************)
(* A model of the BMP280 driver class bmp280 (src/bmp280_lib.cpp): the     *)
(* handle's fields, the sensor's registers behind the I2C transport, and   *)
(* one action per constructor and public member function.  The integer     *)
(* compensation formulas are evaluated on 64-bit two's complement words,   *)
(* because their intermediates exceed the range of TLC's integers.         *)
(***************************************************************************)
EXTENDS Integers, Sequences, FiniteSets, TLC

VARIABLES
    phase,  \* "new" before a constructor has run, "ready" after
    h,      \* the handle: address, the twelve dig_* constants, t_fine
    dev,    \* the sensor: calibration NVM, control, config, data and status registers
    log,    \* what the last call did: bus transactions and conversions, in order
    ret,    \* what the last call handed back to its caller
    prevT   \* history: the runs of convertTemp made one by one

vars == <<phase, h, dev, log, ret, prevT>>

(***************************************************************************)
(* Fixed-width arithmetic.  A word is 8 bytes, least significant first,    *)
(* read as a two's complement int64_t; int32_t values are words that are   *)
(* sign-extended from bit 31.  Signed overflow wraps, as it does in the    *)
(* code the compiler emits for the Cortex-M targets of the STM32 HAL.      *)
(***************************************************************************)
Zero64 == <<0, 0, 0, 0, 0, 0, 0, 0>>

\* Carry propagation: col[k] is the sum that belongs in byte k, before carries;
\* what does not fit in 64 bits is dropped.
Norm(col) ==
    LET s1 == col[1]
        s2 == col[2] + (s1 \div 256)
        s3 == col[3] + (s2 \div 256)
        s4 == col[4] + (s3 \div 256)
        s5 == col[5] + (s4 \div 256)
        s6 == col[6] + (s5 \div 256)
        s7 == col[7] + (s6 \div 256)
        s8 == col[8] + (s7 \div 256)
    IN  <<s1 % 256, s2 % 256, s3 % 256, s4 % 256,
          s5 % 256, s6 % 256, s7 % 256, s8 % 256>>

Add64(a, b) ==
    Norm(<<a[1] + b[1], a[2] + b[2], a[3] + b[3], a[4] + b[4], a[5] + b[5], a[6] + b[6], a[7] + b[7], a[8] + b[8]>>)
Sub64(a, b) ==
    Norm(<<a[1] - b[1], a[2] - b[2], a[3] - b[3], a[4] - b[4], a[5] - b[5], a[6] - b[6], a[7] - b[7], a[8] - b[8]>>)

\* The low 64 bits of a * b: column k collects the byte products of weight k.
Mul64(a, b) ==
    Norm(<<a[1] * b[1],
           a[1] * b[2] + a[2] * b[1],
           a[1] * b[3] + a[2] * b[2] + a[3] * b[1],
           a[1] * b[4] + a[2] * b[3] + a[3] * b[2] + a[4] * b[1],
           a[1] * b[5] + a[2] * b[4] + a[3] * b[3] + a[4] * b[2] + a[5] * b[1],
           a[1] * b[6] + a[2] * b[5] + a[3] * b[4] + a[4] * b[3] + a[5] * b[2] + a[6] * b[1],
           a[1] * b[7] + a[2] * b[6] + a[3] * b[5] + a[4] * b[4] + a[5] * b[3] + a[6] * b[2] + a[7] * b[1],
           a[1] * b[8] + a[2] * b[7] + a[3] * b[6] + a[4] * b[5] + a[5] * b[4] + a[6] * b[3] + a[7] * b[2] + a[8] * b[1]>>)

IsNeg64(a) == a[8] >= 128
IsZero64(a) == \A k \in 1..8 : a[k] = 0
Neg64(a) == Sub64(Zero64, a)
Abs64(a) == IF IsNeg64(a) THEN Neg64(a) ELSE a

\* a >> n on a signed word: the sign bit is shifted in.
Sar64(a, n) ==
    LET q == n \div 8
        r == n % 8
        ext(i) == IF i <= 8 THEN a[i] ELSE IF IsNeg64(a) THEN 255 ELSE 0
        byte(k) == ((ext(k + q) + 256 * ext(k + q + 1)) \div (2^r)) % 256
    IN  <<byte(1), byte(2), byte(3), byte(4), byte(5), byte(6), byte(7), byte(8)>>

\* a << n, the bits shifted out of the word dropped.
Shl64(a, n) ==
    LET q == n \div 8
        r == n % 8
        lo(i) == IF i >= 1 THEN a[i] ELSE 0
        byte(k) == ((lo(k - q) * (2^r)) % 256) + ((lo(k - q - 1) * (2^r)) \div 256)
    IN  <<byte(1), byte(2), byte(3), byte(4), byte(5), byte(6), byte(7), byte(8)>>

ULess64(a, b) ==
    \E k \in 1..8 : a[k] < b[k] /\ \A j \in (k + 1)..8 : a[j] = b[j]

Bit64(a, i) == (a[(i \div 8) + 1] \div (2^(i % 8))) % 2

\* The integer of a word that is an int32_t.
ToInt(a) ==
    a[1] + 256 * a[2] + 65536 * a[3]
      + 16777216 * (IF a[4] >= 128 THEN a[4] - 256 ELSE a[4])

\* Unsigned long division, one bit of the dividend at a time.  st is the pair
\* <<quotient so far, running remainder>>; UDivBits takes bits i down to lo of
\* the dividend a, UDivBytes byte k down to byte 1.
RECURSIVE UDivBits(_, _, _, _, _)
UDivBits(a, b, i, lo, st) ==
    IF i < lo THEN st
    ELSE LET r1 == Norm([k \in 1..8 |-> 2 * st[2][k] + (IF k = 1 THEN Bit64(a, i) ELSE 0)])
         IN  IF ULess64(r1, b)
             THEN UDivBits(a, b, i - 1, lo, <<st[1], r1>>)
             ELSE UDivBits(a, b, i - 1, lo,
                           <<[st[1] EXCEPT ![(i \div 8) + 1] = @ + (2^(i % 8))],
                             Sub64(r1, b)>>)

RECURSIVE UDivBytes(_, _, _, _)
UDivBytes(a, b, k, st) ==
    IF k = 0 THEN st[1]
    ELSE UDivBytes(a, b, k - 1, UDivBits(a, b, 8 * k - 1, 8 * k - 8, st))

\* The same division when the divisor d is below 2^30, so that the running
\* remainder fits an integer: DivBitsSmall takes bits i down to 0 of the byte x
\* into the pair <<quotient byte, remainder>>, DivBytesSmall byte k down to 1.
RECURSIVE DivBitsSmall(_, _, _, _, _)
DivBitsSmall(x, d, i, qb, r) ==
    IF i < 0 THEN <<qb, r>>
    ELSE LET r1 == 2 * r + ((x \div (2^i)) % 2)
         IN  IF r1 < d
             THEN DivBitsSmall(x, d, i - 1, qb, r1)
             ELSE DivBitsSmall(x, d, i - 1, qb + (2^i), r1 - d)

RECURSIVE DivBytesSmall(_, _, _, _, _)
DivBytesSmall(a, d, k, q, r) ==
    IF k = 0 THEN q
    ELSE LET s == DivBitsSmall(a[k], d, 7, 0, r)
         IN  DivBytesSmall(a, d, k - 1, [q EXCEPT ![k] = s[1]], s[2])

FitsSmall(b) == b[5] = 0 /\ b[6] = 0 /\ b[7] = 0 /\ b[8] = 0 /\ b[4] < 64

UDiv64(a, b) ==
    IF FitsSmall(b)
    THEN DivBytesSmall(a, ToInt(b), 8, Zero64, 0)
    ELSE UDivBytes(a, b, 8, <<Zero64, Zero64>>)

\* a / b of C for b # 0: the quotient is truncated toward zero.  (The one
\* division of the driver, line 235, is behind the test of line 232.)
SDiv64(a, b) ==
    LET q == UDiv64(Abs64(a), Abs64(b))
    IN  IF IsNeg64(a) # IsNeg64(b) THEN Neg64(q) ELSE q

\* The word of an integer that fits in 32 bits.
FromInt(i) ==
    LET sx == IF i < 0 THEN 255 ELSE 0
    IN  <<i % 256, (i \div 256) % 256, (i \div 65536) % 256, (i \div 16777216) % 256,
          sx, sx, sx, sx>>

\* (int32_t)a: the low 32 bits, sign-extended.
Sext32(a) ==
    LET sx == IF a[4] >= 128 THEN 255 ELSE 0
    IN  <<a[1], a[2], a[3], a[4], sx, sx, sx, sx>>

(***************************************************************************)
(* Bitwise operators of C on small non-negative integers.                  *)
(***************************************************************************)
RECURSIVE BitOr(_, _)
BitOr(a, b) ==
    IF a = 0 THEN b
    ELSE IF b = 0 THEN a
    ELSE (IF a % 2 = 1 \/ b % 2 = 1 THEN 1 ELSE 0) + 2 * BitOr(a \div 2, b \div 2)

RECURSIVE BitAnd(_, _)
BitAnd(a, b) ==
    IF a = 0 \/ b = 0 THEN 0
    ELSE (IF a % 2 = 1 /\ b % 2 = 1 THEN 1 ELSE 0) + 2 * BitAnd(a \div 2, b \div 2)

ShiftLeft(a, n) == a * (2^n)
ShiftRight(a, n) == a \div (2^n)

\* uint8_t(x): what an assignment to a uint8_t keeps of an int.
U8(x) == x % 256

(***************************************************************************)
(* The sensor behind the transport.  nvm holds the factory calibration as    *)
(* the twelve values; the bytes the bus delivers are their little-endian    *)
(* two's complement encoding.  data holds the six measurement registers    *)
(* 0xF7..0xFC and status the register 0xF3; the sensor changes both on its  *)
(* own when it finishes a conversion.                                      *)
(***************************************************************************)
\* The order of the calibration words in the sensor, from 0x88 up.
NvmOrder ==
    <<"dig_T1", "dig_T2", "dig_T3", "dig_P1", "dig_P2", "dig_P3",
      "dig_P4", "dig_P5", "dig_P6", "dig_P7", "dig_P8", "dig_P9">>

NvmByte(nvm, a) ==
    LET v == nvm[NvmOrder[((a - 136) \div 2) + 1]] % 65536
    IN  IF a % 2 = 0 THEN v % 256 ELSE v \div 256

\* The byte the sensor delivers from register a; a = -1 stands for a register
\* pointer that this call never set, which delivers whatever it points at.
DevRead(c, a) ==
    IF a >= 136 /\ a <= 159 THEN NvmByte(c.dev.nvm, a)
    ELSE IF a = 208 THEN 88
    ELSE IF a = 243 THEN c.dev.status
    ELSE IF a = 244 THEN c.dev.ctrl_meas
    ELSE IF a = 245 THEN c.dev.config
    ELSE IF a >= 247 /\ a <= 252 THEN c.dev.data[a - 246]
    ELSE IF a = -1 THEN c.g
    ELSE 0

\* The sensor's registers after a write of val to register reg.  Only the two
\* registers the driver configures are kept; 0xE0 takes the reset command
\* and stores nothing.
DevWrite(d, reg, val) ==
    IF reg = 244 THEN [d EXCEPT !.ctrl_meas = val]
    ELSE IF reg = 245 THEN [d EXCEPT !.config = val]
    ELSE d

(***************************************************************************)
(* A call in progress is the record c: the handle h and the sensor dev as  *)
(* the call has changed them so far, the log of what it did, the receive   *)
(* buffer buf, the number n of transactions issued, the sensor's register  *)
(* pointer ptr, and what the environment decided for this call: whether    *)
(* its transactions fail ("none" or "all" of them: the bus is up or down)  *)
(* and the byte g found in memory the call never wrote.                    *)
(***************************************************************************)
BusEvent(c, op, reg, data, ok) ==
    [op |-> op, frame |-> ShiftLeft(c.h.address, 1), reg |-> reg, data |-> data,
     ok |-> ok, raw |-> 0, tf |-> 0, early |-> FALSE]

CalcEvent(op, raw, tf, early) ==
    [op |-> op, frame |-> 0, reg |-> 0, data |-> <<>>,
     ok |-> TRUE, raw |-> raw, tf |-> tf, early |-> early]

Fails(c) == c.fail = "all"

\* HAL_I2C_Mem_Write of one byte.  The driver drops the returned status.
HAL_I2C_Mem_Write(c, reg, val) ==
    [c EXCEPT !.n = @ + 1,
              !.dev = IF Fails(c) THEN @ ELSE DevWrite(@, reg, val),
              !.ptr = IF Fails(c) THEN @ ELSE reg,
              !.log = Append(@, BusEvent(c, "Mem_Write", reg, <<val>>, ~Fails(c)))]

\* HAL_I2C_Mem_Read of len bytes into a local buffer the caller never
\* initialised: a failed read leaves the buffer as it was found.
HAL_I2C_Mem_Read(c, reg, len) ==
    LET got == IF Fails(c) THEN [i \in 1..len |-> c.g]
               ELSE [i \in 1..len |-> DevRead(c, reg + i - 1)]
    IN  [c EXCEPT !.n = @ + 1,
                  !.buf = got,
                  !.ptr = IF Fails(c) THEN @ ELSE reg + len,
                  !.log = Append(@, BusEvent(c, "Mem_Read", reg, got, ~Fails(c)))]

\* HAL_I2C_Master_Transmit of one byte: the register pointer.
HAL_I2C_Master_Transmit(c, addr) ==
    [c EXCEPT !.n = @ + 1,
              !.ptr = IF Fails(c) THEN @ ELSE addr,
              !.log = Append(@, BusEvent(c, "Master_Transmit", addr, <<addr>>, ~Fails(c)))]

\* HAL_I2C_Master_Receive of len bytes from the register pointer on.
HAL_I2C_Master_Receive(c, len) ==
    LET got == IF Fails(c) THEN [i \in 1..len |-> c.g]
               ELSE [i \in 1..len |->
                       DevRead(c, IF c.ptr = -1 THEN -1 ELSE c.ptr + i - 1)]
    IN  [c EXCEPT !.n = @ + 1,
                  !.buf = got,
                  !.ptr = IF Fails(c) \/ @ = -1 THEN @ ELSE @ + len,
                  !.log = Append(@, BusEvent(c, "Master_Receive", 0, got, ~Fails(c)))]

(***************************************************************************)
(* The member functions of bmp280.  Each takes the call record and gives   *)
(* back the call record after it ran; a function that returns a value     *)
(* gives back [c, val].                                                    *)
(***************************************************************************)
\* A faulty settings: the two oversampling codes change places in the byte.
settingsCodesSwapped(c, osrs_p, osrs_t, mode) ==
    HAL_I2C_Mem_Write(c, 244, U8(BitOr(BitOr(ShiftLeft(osrs_p, 5), ShiftLeft(osrs_t, 2)), mode)))

settings(c, osrs_p, osrs_t, mode) ==
    LET reg == U8(BitOr(BitOr(ShiftLeft(osrs_t, 5), ShiftLeft(osrs_p, 2)), mode))
    IN  HAL_I2C_Mem_Write(c, 244, reg)

setConfig(c, t_sb) == HAL_I2C_Mem_Write(c, 245, t_sb)

Reset(c) == HAL_I2C_Mem_Write(c, 224, 182)

conversionRunning(c) ==
    LET c1 == HAL_I2C_Mem_Read(c, 243, 1)
    IN  [c |-> c1, val |-> BitAnd(c1.buf[1], 8)]

dataCopying(c) ==
    LET c1 == HAL_I2C_Mem_Read(c, 243, 1)
    IN  [c |-> c1, val |-> BitAnd(c1.buf[1], 8)]

\* A faulty read_id: the byte read is also stored as the handle's address.
read_idIntoAddress(c) ==
    LET c1 == HAL_I2C_Mem_Read(c, 208, 1)
    IN  [c |-> [c1 EXCEPT !.h.address = c1.buf[1]], val |-> c1.buf[1]]

read_id(c) ==
    LET c1 == HAL_I2C_Mem_Read(c, 208, 1)
    IN  [c |-> c1, val |-> c1.buf[1]]

readU16bit(c, addr) ==
    LET c1 == HAL_I2C_Master_Transmit(c, addr)
        c2 == HAL_I2C_Master_Receive(c1, 2)
    IN  [c |-> c2,
         val |-> BitOr(ShiftLeft(c2.buf[2], 8) % 65536, c2.buf[1] % 65536)]

\* int16_t(data): the same 16 bits read as two's complement.
readS16bit(c, addr) ==
    LET r == readU16bit(c, addr)
    IN  [c |-> r.c, val |-> IF r.val >= 32768 THEN r.val - 65536 ELSE r.val]

\* A faulty table: dig_P8 and dig_P9 are read from each other's register.
CalibrationTableCrossed ==
    << [field |-> "dig_T1", addr |-> 136, signed |-> FALSE],
       [field |-> "dig_T2", addr |-> 138, signed |-> TRUE],
       [field |-> "dig_T3", addr |-> 140, signed |-> TRUE],
       [field |-> "dig_P1", addr |-> 142, signed |-> FALSE],
       [field |-> "dig_P2", addr |-> 144, signed |-> TRUE],
       [field |-> "dig_P3", addr |-> 146, signed |-> TRUE],
       [field |-> "dig_P4", addr |-> 148, signed |-> TRUE],
       [field |-> "dig_P5", addr |-> 150, signed |-> TRUE],
       [field |-> "dig_P6", addr |-> 152, signed |-> TRUE],
       [field |-> "dig_P7", addr |-> 154, signed |-> TRUE],
       [field |-> "dig_P8", addr |-> 158, signed |-> TRUE],
       [field |-> "dig_P9", addr |-> 156, signed |-> TRUE] >>

\* Lines 101 to 112, one entry per assignment: the field, the register the
\* line passes, and whether the line calls readS16bit.
CalibrationTable ==
    << [field |-> "dig_T1", addr |-> 136, signed |-> FALSE],
       [field |-> "dig_T2", addr |-> 138, signed |-> TRUE],
       [field |-> "dig_T3", addr |-> 140, signed |-> TRUE],
       [field |-> "dig_P1", addr |-> 142, signed |-> FALSE],
       [field |-> "dig_P2", addr |-> 144, signed |-> TRUE],
       [field |-> "dig_P3", addr |-> 146, signed |-> TRUE],
       [field |-> "dig_P4", addr |-> 148, signed |-> TRUE],
       [field |-> "dig_P5", addr |-> 150, signed |-> TRUE],
       [field |-> "dig_P6", addr |-> 152, signed |-> TRUE],
       [field |-> "dig_P7", addr |-> 154, signed |-> TRUE],
       [field |-> "dig_P8", addr |-> 156, signed |-> TRUE],
       [field |-> "dig_P9", addr |-> 158, signed |-> TRUE] >>

RECURSIVE readCalibrationFrom(_, _)
readCalibrationFrom(c, i) ==
    IF i > Len(CalibrationTable) THEN c
    ELSE LET line == CalibrationTable[i]
             r    == IF line.signed THEN readS16bit(c, line.addr) ELSE readU16bit(c, line.addr)
         IN  readCalibrationFrom([r.c EXCEPT !.h.dig[line.field] = r.val], i + 1)

readCalibration(c) == readCalibrationFrom(c, 1)

\* A faulty assembly: the last byte is not shifted, its low nibble stays.
RawSampleKeepNibble(b0, b1, b2) ==
    BitOr(BitOr(ShiftLeft(b0, 12), ShiftLeft(b1, 4)), b2)

\* The raw sample of three buffer bytes, as lines 157, 158, 180 and 215 form it.
RawSample(b0, b1, b2) ==
    BitOr(BitOr(ShiftLeft(b0, 12), ShiftLeft(b1, 4)), ShiftRight(b2, 4))

\* A faulty readAll: the two channels are fetched by two bursts of 3 bytes.
readAllTwoBursts(c) ==
    LET c1 == HAL_I2C_Mem_Read(c, 247, 3)
        c2 == HAL_I2C_Mem_Read(c1, 250, 3)
    IN  [c |-> c2,
         temperature_raw |-> RawSample(c2.buf[1], c2.buf[2], c2.buf[3]),
         pressure_raw    |-> RawSample(c1.buf[1], c1.buf[2], c1.buf[3])]

readAll(c) ==
    LET c1 == HAL_I2C_Mem_Read(c, 247, 6)
    IN  [c |-> c1,
         temperature_raw |-> RawSample(c1.buf[4], c1.buf[5], c1.buf[6]),
         pressure_raw    |-> RawSample(c1.buf[1], c1.buf[2], c1.buf[3])]

readTemp(c) ==
    LET c1 == HAL_I2C_Mem_Read(c, 250, 3)
    IN  [c |-> c1, val |-> RawSample(c1.buf[1], c1.buf[2], c1.buf[3])]

readPressure(c) ==
    LET c1 == HAL_I2C_Mem_Read(c, 247, 3)
    IN  [c |-> c1, val |-> RawSample(c1.buf[1], c1.buf[2], c1.buf[3])]

(***************************************************************************)
(* The compensation formulas.                                              *)
(***************************************************************************)
\* convertTemp's arithmetic: every operand is an int32_t.
convertTempCalc(dig, temp_raw) ==
    LET R   == FromInt(temp_raw)
        T1  == FromInt(dig.dig_T1)
        T2  == FromInt(dig.dig_T2)
        T3  == FromInt(dig.dig_T3)
        a   == Sext32(Sub64(Sar64(R, 3), Sext32(Shl64(T1, 1))))
        v1  == Sar64(Sext32(Mul64(a, T2)), 11)
        d   == Sext32(Sub64(Sar64(R, 4), T1))
        v2  == Sar64(Sext32(Mul64(Sar64(Sext32(Mul64(d, d)), 12), T3)), 14)
        tf  == Sext32(Add64(v1, v2))
        tmp == Sar64(Sext32(Add64(Sext32(Mul64(tf, FromInt(5))), FromInt(128))), 8)
    IN  [t_fine |-> ToInt(tf), T100 |-> ToInt(tmp)]

\* A faulty convertTemp: t_fine is added to instead of assigned.
convertTempAccumulating(c, temp_raw) ==
    LET r  == convertTempCalc(c.h.dig, temp_raw)
        tf == ToInt(Sext32(Add64(FromInt(c.h.t_fine), FromInt(r.t_fine))))
    IN  [c   |-> [c EXCEPT !.h.t_fine = tf,
                           !.log = Append(@, CalcEvent("convertTemp", temp_raw, tf, FALSE))],
         val |-> r.T100]

\* convertTemp writes the member t_fine and returns temperature/100.0; the
\* double is kept as its numerator, the integer temperature (hundredths of a
\* degree Celsius).
convertTemp(c, temp_raw) ==
    LET r == convertTempCalc(c.h.dig, temp_raw)
    IN  [c   |-> [c EXCEPT !.h.t_fine = r.t_fine,
                           !.log = Append(@, CalcEvent("convertTemp", temp_raw, r.t_fine, FALSE))],
         val |-> r.T100]

\* var2 of convertPressure after line 228.
PressureVar2(dig, t_fine) ==
    LET v1 == Sub64(FromInt(t_fine), FromInt(128000))
        a  == Mul64(Mul64(v1, v1), FromInt(dig.dig_P6))
        b  == Add64(a, Shl64(Mul64(v1, FromInt(dig.dig_P5)), 17))
    IN  Add64(b, Shl64(FromInt(dig.dig_P4), 35))

\* var1 of convertPressure after line 230: the divisor.
PressureVar1(dig, t_fine) ==
    LET v1 == Sub64(FromInt(t_fine), FromInt(128000))
        a  == Add64(Sar64(Mul64(Mul64(v1, v1), FromInt(dig.dig_P3)), 8),
                    Shl64(Mul64(v1, FromInt(dig.dig_P2)), 12))
    IN  Sar64(Mul64(Add64(Shl64(FromInt(1), 47), a), FromInt(dig.dig_P1)), 33)

\* Lines 234 to 238: the value p whose quotient p/256.0 is returned.
PressureQuotient(dig, t_fine, pres_raw) ==
    LET var1 == PressureVar1(dig, t_fine)
        var2 == PressureVar2(dig, t_fine)
        p0   == Sub64(FromInt(1048576), FromInt(pres_raw))
        p1   == SDiv64(Mul64(Sub64(Shl64(p0, 31), var2), FromInt(3125)), var1)
        s    == Sar64(p1, 13)
        w1   == Sar64(Mul64(Mul64(FromInt(dig.dig_P9), s), s), 25)
        w2   == Sar64(Mul64(FromInt(dig.dig_P8), p1), 19)
    IN  Add64(Sar64(Add64(Add64(p1, w1), w2), 8), Shl64(FromInt(dig.dig_P7), 4))

\* A faulty guard: it also takes the early return when the divisor is negative.
DivisorNotPositive(dig, t_fine) ==
    IsZero64(PressureVar1(dig, t_fine)) \/ IsNeg64(PressureVar1(dig, t_fine))

\* Line 232: the test that guards the division.
DivisorIsZero(dig, t_fine) == IsZero64(PressureVar1(dig, t_fine))

\* convertPressure reads the member t_fine.  It returns p/256.0, kept as the
\* word p (pascals times 256).  The log entry keeps the t_fine it read and
\* whether line 232 returned 0.0 before the division of line 235.
convertPressure(c, pres_raw) ==
    LET early == DivisorIsZero(c.h.dig, c.h.t_fine)
    IN  [c   |-> [c EXCEPT !.log = Append(@, CalcEvent("convertPressure", pres_raw,
                                                      c.h.t_fine, early))],
         val |-> IF early THEN Zero64
                 ELSE PressureQuotient(c.h.dig, c.h.t_fine, pres_raw)]

(***************************************************************************)
(* The constructors and the measurement functions.                         *)
(***************************************************************************)
\* bmp280(I2C_HandleTypeDef, uint8_t), lines 14 to 20.
bmp280WithAddress(c, _address) ==
    LET c1 == [c EXCEPT !.h.address = _address]
        c2 == settings(c1, 1, 3, 3)
        c3 == setConfig(c2, 0)
    IN  readCalibration(c3)

\* A faulty default constructor: the config register is written first.
bmp280DefaultConfigFirst(c) ==
    LET c1 == [c EXCEPT !.h.address = 118]
        c2 == setConfig(c1, 0)
        c3 == settings(c2, 2, 3, 3)
    IN  readCalibration(c3)

\* bmp280(I2C_HandleTypeDef), lines 28 to 34.
bmp280Default(c) ==
    LET c1 == [c EXCEPT !.h.address = 118]
        c2 == settings(c1, 2, 3, 3)
        c3 == setConfig(c2, 0)
    IN  readCalibration(c3)

\* getTempPressure, lines 143 to 148.  Each operator below is the function
\* from one of its lines on; its last argument is what the line before it
\* produced.
getTempPressureEnd(t, p) ==
    [c |-> p.c, temperature |-> t.val, pressure |-> p.val]

getTempPressureLine147(r, t) ==
    getTempPressureEnd(t, convertPressure(t.c, r.pressure_raw))

getTempPressureLine146(r) ==
    getTempPressureLine147(r, convertTemp(r.c, r.temperature_raw))

getTempPressure(c) == getTempPressureLine146(readAll(c))

\* getTemperature, lines 166 to 170.
getTemperatureLine168(r) == convertTemp(r.c, r.val)

getTemperature(c) == getTemperatureLine168(readTemp(c))

\* getPressure, lines 201 to 205.  It reads no temperature: convertPressure
\* finds in t_fine whatever an earlier call left there.
getPressureLine203(r) == convertPressure(r.c, r.val)

getPressure(c) == getPressureLine203(readPressure(c))

(***************************************************************************)
(* The state machine.  An action is one call from the application: it      *)
(* starts a call record on the current handle and sensor, runs the member  *)
(* function, and stores what the call left behind.  log is the ordered     *)
(* record of the last call; ret is what its caller got back.  The C++      *)
(* signatures return void or a value; none returns a status and none       *)
(* throws.  prevT is history: the runs of convertTemp made one by one (by   *)
(* the action ConvertTemp below), each with its input and its outputs.     *)
(***************************************************************************)
GarbageBytes == {0, 255}
BusUp == [fail |-> "none", g |-> 0]
CallEnv == {BusUp} \cup [fail : {"all"}, g : GarbageBytes]

Start(e) ==
    [h |-> h, dev |-> dev, log |-> <<>>, buf |-> <<>>, n |-> 0, ptr |-> -1,
     fail |-> e.fail, g |-> e.g]

\* What a caller has after a call: the function it called, the arguments it
\* passed, how the function came back ("object" for a constructor, "void" or
\* "value" by the declared return type) and the values handed back.
Returned(call, args, outcome, val) ==
    [call |-> call, args |-> args, outcome |-> outcome, val |-> val]

Finish(c, r) ==
    /\ h'   = c.h
    /\ dev' = c.dev
    /\ log' = c.log
    /\ ret' = r

\* One run of convertTemp: its input, the t_fine it found, its two outputs.
TempRun(raw, prior, T100, tf) ==
    [raw |-> raw, prior |-> prior, T100 |-> T100, t_fine |-> tf]

Construct1(_address, e) ==
    /\ phase = "new"
    /\ phase' = "ready"
    /\ Finish(bmp280WithAddress(Start(e), _address), Returned("bmp280", <<_address>>, "object", <<>>))
    /\ UNCHANGED prevT

Construct2(e) ==
    /\ phase = "new"
    /\ phase' = "ready"
    /\ Finish(bmp280Default(Start(e)), Returned("bmp280", <<>>, "object", <<>>))
    /\ UNCHANGED prevT

Settings(osrs_p, osrs_t, mode, e) ==
    /\ phase = "ready"
    /\ Finish(settings(Start(e), osrs_p, osrs_t, mode), Returned("settings", <<osrs_p, osrs_t, mode>>, "void", <<>>))
    /\ UNCHANGED <<phase, prevT>>

SetConfig(t_sb, e) ==
    /\ phase = "ready"
    /\ Finish(setConfig(Start(e), t_sb), Returned("setConfig", <<t_sb>>, "void", <<>>))
    /\ UNCHANGED <<phase, prevT>>

DoReset(e) ==
    /\ phase = "ready"
    /\ Finish(Reset(Start(e)), Returned("Reset", <<>>, "void", <<>>))
    /\ UNCHANGED <<phase, prevT>>

ConversionRunning(e) ==
    /\ phase = "ready"
    /\ LET r == conversionRunning(Start(e))
       IN  Finish(r.c, Returned("conversionRunning", <<>>, "value", <<r.val>>))
    /\ UNCHANGED <<phase, prevT>>

DataCopying(e) ==
    /\ phase = "ready"
    /\ LET r == dataCopying(Start(e))
       IN  Finish(r.c, Returned("dataCopying", <<>>, "value", <<r.val>>))
    /\ UNCHANGED <<phase, prevT>>

ReadId(e) ==
    /\ phase = "ready"
    /\ LET r == read_id(Start(e))
       IN  Finish(r.c, Returned("read_id", <<>>, "value", <<r.val>>))
    /\ UNCHANGED <<phase, prevT>>

GetTemperature(e) ==
    /\ phase = "ready"
    /\ LET r == getTemperature(Start(e))
       IN  Finish(r.c, Returned("getTemperature", <<>>, "value", <<r.val>>))
    /\ UNCHANGED <<phase, prevT>>

GetPressure(e) ==
    /\ phase = "ready"
    /\ LET r == getPressure(Start(e))
       IN  Finish(r.c, Returned("getPressure", <<>>, "value", <<r.val>>))
    /\ UNCHANGED <<phase, prevT>>

\* The two doubles come back through the pointer arguments.
GetTempPressure(e) ==
    /\ phase = "ready"
    /\ LET r == getTempPressure(Start(e))
       IN  Finish(r.c, Returned("getTempPressure", <<>>, "void", <<r.temperature, r.pressure>>))
    /\ UNCHANGED <<phase, prevT>>

\* The sensor finishes a conversion: new measurement registers, new status.
SensorUpdate(sample) ==
    /\ dev' = [dev EXCEPT !.data = sample.data, !.status = sample.status]
    /\ dev' # dev
    /\ UNCHANGED <<phase, h, log, ret, prevT>>

(***************************************************************************)
(* The life of one handle: constructed once, then used.                    *)
(***************************************************************************)
\* The calibration words of the data sheet's worked example.
DatasheetNvm ==
    [dig_T1 |-> 27504, dig_T2 |-> 26435, dig_T3 |-> -1000,
     dig_P1 |-> 36477, dig_P2 |-> -10685, dig_P3 |-> 3024,
     dig_P4 |-> 2855,  dig_P5 |-> 140,    dig_P6 |-> -7,
     dig_P7 |-> 15500, dig_P8 |-> -14600, dig_P9 |-> 6000]

\* Measurement registers 0xF7..0xFC: the data sheet's example (pressure
\* 0x655AC, temperature 0x7EED0) and a second sample.
SensorSamples ==
    { [data |-> <<101, 90, 192, 126, 237, 0>>,  status |-> 0],
      [data |-> <<171, 205, 239, 18, 52, 86>>, status |-> 9] }

\* The members of a handle before its constructor ran.  No constructor
\* writes t_fine, so it keeps the value the storage had.
NoDig == [f \in DOMAIN DatasheetNvm |-> 0]
TFineGarbage == {0, 1176576}
Addresses == {119}
SettingsInputs == { <<7, 7, 3>> }
ConfigInputs == {0}

NoCall == Returned("none", <<>>, "none", <<>>)

Init ==
    /\ phase = "new"
    /\ h \in [address : {0}, dig : {NoDig}, t_fine : TFineGarbage]
    /\ \E sample \in SensorSamples :
          dev = [nvm |-> DatasheetNvm, ctrl_meas |-> 0, config |-> 0,
                 data |-> sample.data, status |-> sample.status]
    /\ log = <<>>
    /\ ret = NoCall
    /\ prevT = {}

Next ==
    \/ \E a \in Addresses, e \in CallEnv : Construct1(a, e)
    \/ \E e \in CallEnv : Construct2(e)
    \/ \E s \in SettingsInputs, e \in CallEnv : Settings(s[1], s[2], s[3], e)
    \/ \E t \in ConfigInputs, e \in CallEnv : SetConfig(t, e)
    \/ \E e \in CallEnv : DoReset(e)
    \/ \E e \in CallEnv : ConversionRunning(e)
    \/ \E e \in CallEnv : DataCopying(e)
    \/ \E e \in CallEnv : ReadId(e)
    \/ \E e \in CallEnv : GetTemperature(e)
    \/ \E e \in CallEnv : GetPressure(e)
    \/ \E e \in CallEnv : GetTempPressure(e)
    \/ \E sample \in SensorSamples : SensorUpdate(sample)

Spec == Init /\ [][Next]_vars

(***************************************************************************)
(* settings over its whole domain, on a handle built by the default        *)
(* constructor with the bus up.                                            *)
(***************************************************************************)
ConstructedDefault ==
    bmp280Default([h   |-> [address |-> 0, dig |-> NoDig, t_fine |-> 0],
                   dev |-> [nvm |-> DatasheetNvm, ctrl_meas |-> 0, config |-> 0,
                            data |-> <<101, 90, 192, 126, 237, 0>>, status |-> 0],
                   log |-> <<>>, buf |-> <<>>, n |-> 0, ptr |-> -1,
                   fail |-> "none", g |-> 0])

OversamplingCodes == 0..7
ModeCodes == 0..3

InitCfg ==
    /\ phase = "ready"
    /\ h = ConstructedDefault.h
    /\ dev = ConstructedDefault.dev
    /\ log = ConstructedDefault.log
    /\ ret = Returned("bmp280", <<>>, "object", <<>>)
    /\ prevT = {}

NextCfg ==
    \/ \E p \in OversamplingCodes, t \in OversamplingCodes, m \in ModeCodes :
          Settings(p, t, m, BusUp)
    \/ \E s \in SettingsInputs, e \in CallEnv \ {BusUp} : Settings(s[1], s[2], s[3], e)

SpecCfg == InitCfg /\ [][NextCfg]_vars

(***************************************************************************)
(* The two compensation functions run one by one, as a unit test of the    *)
(* private members would run them, on handles whose calibration and        *)
(* t_fine are drawn from sets that reach the corners of the formulas.      *)
(***************************************************************************)
ConvertTemp(temp_raw) ==
    /\ phase = "ready"
    /\ LET r == convertTemp(Start(BusUp), temp_raw)
       IN  /\ Finish(r.c, Returned("convertTemp", <<temp_raw>>, "value", <<r.val>>))
           /\ prevT' = prevT \cup {TempRun(temp_raw, h.t_fine, r.val, r.c.h.t_fine)}
    /\ UNCHANGED phase

ConvertPressure(pres_raw) ==
    /\ phase = "ready"
    /\ LET r == convertPressure(Start(BusUp), pres_raw)
       IN  Finish(r.c, Returned("convertPressure", <<pres_raw>>, "value", <<r.val>>))
    /\ UNCHANGED <<phase, prevT>>

\* Calibration words: the data sheet's with dig_P1..dig_P3, the divisor's
\* inputs, varied.  With dig_P2 = 0 and dig_P3 = -32768 the divisor is 0 at
\* t_fine = 128000 + 2^20 although dig_P1 is not, and negative above it.
PressureWords == {<<0, -10685, 3024>>, <<36477, -10685, 3024>>, <<1, -10685, 3024>>,
                  <<36477, 0, -32768>>, <<65535, 0, -32768>>, <<0, 0, -32768>>}
TFineValues == {0, 128000, 128422, 1176576, 2225152}
RawPressures == {0, 1, 415148, 703710, 1048575}

InitPressure ==
    /\ phase = "ready"
    /\ \E pw \in PressureWords, tf \in TFineValues :
          h = [address |-> 118,
               dig |-> [DatasheetNvm EXCEPT !.dig_P1 = pw[1], !.dig_P2 = pw[2],
                                            !.dig_P3 = pw[3]],
               t_fine |-> tf]
    /\ dev = [ConstructedDefault.dev EXCEPT !.nvm = h.dig]
    /\ log = <<>>
    /\ ret = NoCall
    /\ prevT = {}

NextPressure == \E raw \in RawPressures : ConvertPressure(raw)

SpecPressure == InitPressure /\ [][NextPressure]_vars

\* Calibration words with dig_T1..dig_T3 varied: the data sheet's, a second
\* set, and the two sets a constructor leaves when the bus was down.
TemperatureWords == {<<27504, 26435, -1000>>, <<28000, 26000, 50>>,
                     <<0, 0, 0>>, <<65535, -1, -1>>}
RawTemperatures == {519888, 1048575}

InitTemperature ==
    /\ phase = "ready"
    /\ \E tw \in TemperatureWords, tf \in TFineValues :
          h = [address |-> 118,
               dig |-> [DatasheetNvm EXCEPT !.dig_T1 = tw[1], !.dig_T2 = tw[2],
                                            !.dig_T3 = tw[3]],
               t_fine |-> tf]
    /\ dev = [ConstructedDefault.dev EXCEPT !.nvm = h.dig]
    /\ log = <<>>
    /\ ret = NoCall
    /\ prevT = {}

NextTemperature == \E raw \in RawTemperatures : ConvertTemp(raw)

SpecTemperature == InitTemperature /\ [][NextTemperature]_vars

(***************************************************************************)
(* The three raw readers run one by one on a constructed handle, the       *)
(* sensor's measurement registers drawn from a set that has every nibble   *)
(* boundary.                                                               *)
(***************************************************************************)
ReadTemp(e) ==
    /\ phase = "ready"
    /\ LET r == readTemp(Start(e))
       IN  Finish(r.c, Returned("readTemp", <<>>, "value", <<r.val>>))
    /\ UNCHANGED <<phase, prevT>>

ReadPressure(e) ==
    /\ phase = "ready"
    /\ LET r == readPressure(Start(e))
       IN  Finish(r.c, Returned("readPressure", <<>>, "value", <<r.val>>))
    /\ UNCHANGED <<phase, prevT>>

\* The two samples come back through the pointer arguments.
ReadAll(e) ==
    /\ phase = "ready"
    /\ LET r == readAll(Start(e))
       IN  Finish(r.c, Returned("readAll", <<>>, "void", <<r.temperature_raw, r.pressure_raw>>))
    /\ UNCHANGED <<phase, prevT>>

RawBytes == {0, 1, 15, 16, 127, 128, 171, 205, 224, 239, 240, 255}

\* Pressure registers b0 b1 b2, temperature registers their complements, so
\* that the two channels of a burst never hold the same triplet.
InitRaw ==
    /\ phase = "ready"
    /\ h = ConstructedDefault.h
    /\ \E b0 \in RawBytes, b1 \in RawBytes, b2 \in RawBytes :
          dev = [ConstructedDefault.dev EXCEPT
                   !.data = <<b0, b1, b2, 255 - b0, 255 - b1, 255 - b2>>]
    /\ log = <<>>
    /\ ret = NoCall
    /\ prevT = {}

NextRaw ==
    \/ \E e \in CallEnv : ReadTemp(e)
    \/ \E e \in CallEnv : ReadPressure(e)
    \/ \E e \in CallEnv : ReadAll(e)

SpecRaw == InitRaw /\ [][NextRaw]_vars

(***************************************************************************)
(* Properties.                                                             *)
(***************************************************************************)
BusOps == {"Mem_Write", "Mem_Read", "Master_Transmit", "Master_Receive"}

\* The 20-bit sample held by bytes i, i+1, i+2 of a burst: MSB, LSB, and the
\* high nibble of XLSB.
Sample20(bytes, i) == 4096 * bytes[i] + 16 * bytes[i + 1] + (bytes[i + 2] \div 16)

\* C1: a call of getTempPressure issues exactly one bus transaction, a read
\* of 6 bytes at 0xF7 (pressure in bytes 0..2, temperature in bytes 3..5);
\* it then runs convertTemp and after it convertPressure, and convertPressure
\* reads the t_fine that this convertTemp produced.
CombinedReadIsOneBurst ==
    ret.call = "getTempPressure" =>
        /\ Len(log) = 3
        /\ log[1].op = "Mem_Read" /\ log[1].reg = 247 /\ Len(log[1].data) = 6
        /\ log[2].op = "convertTemp" /\ log[2].raw = Sample20(log[1].data, 4)
        /\ log[3].op = "convertPressure" /\ log[3].raw = Sample20(log[1].data, 1)
        /\ log[3].tf = log[2].tf
        /\ h.t_fine = log[2].tf

\* The data sheet's example came back from one burst: 25.08 degrees Celsius
\* and 25767233/256 = 100653.25 Pa.
CombinedReadOfDatasheetSample ==
    /\ ret.call = "getTempPressure"
    /\ log[1].ok /\ log[1].data = <<101, 90, 192, 126, 237, 0>>
    /\ ret.val = <<2508, <<65, 45, 137, 1, 0, 0, 0, 0>> >>

\* C2: every pressure a measurement call returns was compensated with a
\* t_fine computed, in the same call, from the temperature sample of the
\* burst that delivered the pressure sample.
PressureUsesSameAcquisition ==
    ret.call \in {"getPressure", "getTempPressure"} =>
        \E k, i, j \in DOMAIN log :
            /\ k < i /\ i < j
            /\ log[k].op = "Mem_Read" /\ Len(log[k].data) = 6
            /\ log[i].op = "convertTemp" /\ log[i].raw = Sample20(log[k].data, 4)
            /\ log[j].op = "convertPressure" /\ log[j].raw = Sample20(log[k].data, 1)
            /\ log[j].tf = log[i].tf

\* C3: a call in which a bus transaction failed comes back to its caller
\* with an error, not as void or with a value.
TransportFailureSurfaced ==
    (\E i \in DOMAIN log : log[i].op \in BusOps /\ ~log[i].ok) => ret.outcome = "error"

\* C4: a constructor first writes its control byte to 0xF4, then 0 to 0xF5,
\* then loads the calibration; no call is made before the constructor, and
\* no later call issues a calibration read.
ConstructionOrder ==
    /\ phase = "new" => ret = NoCall
    /\ ret.call = "bmp280" =>
          /\ Len(log) = 26
          /\ log[1].op = "Mem_Write" /\ log[1].reg = 244
          /\ log[1].data = (IF ret.args = <<>> THEN <<107>> ELSE <<103>>)
          /\ log[2].op = "Mem_Write" /\ log[2].reg = 245 /\ log[2].data = <<0>>
          /\ \A i \in 3..26 : log[i].op \in {"Master_Transmit", "Master_Receive"}
    /\ ret.call \notin {"none", "bmp280"} =>
          /\ phase = "ready"
          /\ \A i \in DOMAIN log : log[i].op \notin {"Master_Transmit", "Master_Receive"}

ConstructedWithBusUp ==
    /\ ret.call = "bmp280" /\ ret.args = <<>>
    /\ \A i \in DOMAIN log : log[i].ok
    /\ dev.ctrl_meas = 107 /\ dev.config = 0

\* C5: once the constructor has returned, no call changes the handle's
\* address or any of its twelve calibration constants.
HandleIdentityKept ==
    [][phase = "ready" => (h'.address = h.address /\ h'.dig = h.dig)]_vars

UsedAfterConstruction ==
    /\ ret.call \in {"settings", "setConfig", "Reset", "conversionRunning", "dataCopying",
                     "read_id", "getTemperature", "getPressure", "getTempPressure"}
    /\ h.address = 119 /\ h.dig = DatasheetNvm

\* C6: for osrs_p and osrs_t in 0..7 and mode in 0..3, settings issues one
\* write of one byte to 0xF4 and nothing else; the byte has osrs_t in bits
\* 7:5, osrs_p in bits 4:2 and mode in bits 1:0, and when the write succeeds
\* it is the only register of the sensor that changes.
ControlByteLayout ==
    [][ret'.call = "settings" =>
          /\ Len(log') = 1
          /\ log'[1].op = "Mem_Write" /\ log'[1].reg = 244 /\ Len(log'[1].data) = 1
          /\ log'[1].data[1] = 32 * ret'.args[2] + 4 * ret'.args[1] + ret'.args[3]
          /\ dev' = IF log'[1].ok THEN [dev EXCEPT !.ctrl_meas = log'[1].data[1]] ELSE dev]_vars

\* settings(5, 7, 1) wrote 0xF5 = 245 over the constructor's 0x6B.
ControlByteWritten ==
    /\ ret.call = "settings" /\ ret.args = <<5, 7, 1>>
    /\ log[1].ok /\ dev.ctrl_meas = 245

\* C7: convertPressure returns 0.0 without dividing exactly when the divisor
\* var1 is zero, which it is whenever dig_P1 is zero; when var1 is not zero
\* the division is made.
ZeroDivisorGuard ==
    ret.call = "convertPressure" =>
        LET zero == IsZero64(PressureVar1(h.dig, h.t_fine))
        IN  /\ Len(log) = 1 /\ log[1].op = "convertPressure" /\ log[1].tf = h.t_fine
            /\ h.dig.dig_P1 = 0 => zero
            /\ zero => (log[1].early /\ ret.val = <<Zero64>>)
            /\ ~zero => ~log[1].early

\* The early return taken although dig_P1 is not zero.
ZeroDivisorWithoutZeroP1 ==
    /\ ret.call = "convertPressure" /\ ret.args = <<415148>>
    /\ h.dig.dig_P1 = 36477 /\ log[1].early /\ ret.val = <<Zero64>>

\* C8: a run of convertTemp gives the temperature and the t_fine that every
\* earlier run on the same raw sample gave, whatever t_fine it found; it
\* changes nothing of the handle but t_fine, and nothing of the sensor.
TemperatureRunsAgree ==
    [][ret'.call = "convertTemp" =>
          /\ TempRun(ret'.args[1], h.t_fine, ret'.val[1], h'.t_fine) \in prevT'
          /\ \A x \in prevT, y \in prevT' :
                x.raw = y.raw => (x.T100 = y.T100 /\ x.t_fine = y.t_fine)
          /\ h'.address = h.address /\ h'.dig = h.dig /\ dev' = dev]_vars

\* The data sheet's sample converted twice, from two different t_fine.
SameSampleFromTwoStates ==
    /\ ret.call = "convertTemp" /\ ret.val = <<2508>> /\ h.t_fine = 128422
    /\ \E x \in prevT, y \in prevT : x.raw = 519888 /\ y.raw = 519888 /\ x.prior # y.prior

\* C9: the constructor's calibration load is 12 reads, of the registers 0x88,
\* 0x8A, ..., 0x9E in this order; each is a write of the register pointer
\* followed by a receive of 2 bytes, low byte first; the values go, in this
\* order, to dig_T1 (unsigned), dig_T2, dig_T3 (signed), dig_P1 (unsigned),
\* dig_P2..dig_P9 (signed).  With the bus up the handle then holds the
\* sensor's calibration words.
CalibrationLoad ==
    ret.call = "bmp280" =>
        /\ Len(log) = 26
        /\ \A i \in 1..12 :
              LET tx == log[2 * i + 1]
                  rx == log[2 * i + 2]
                  f  == NvmOrder[i]
                  u  == rx.data[1] + 256 * rx.data[2]
              IN  /\ tx.op = "Master_Transmit" /\ tx.data = <<134 + 2 * i>>
                  /\ rx.op = "Master_Receive" /\ Len(rx.data) = 2
                  /\ h.dig[f] = IF f \in {"dig_T1", "dig_P1"} \/ u < 32768
                                THEN u ELSE u - 65536
        /\ (\A i \in 1..26 : log[i].ok) => h.dig = dev.nvm

\* Loaded with the bus up: dig_T3 = -1000 came as 0x18 0xFC, dig_P1 = 36477
\* (above 32767) as 0x7D 0x8E.
CalibrationLoaded ==
    /\ ret.call = "bmp280"
    /\ log[8].ok /\ log[8].data = <<24, 252>> /\ h.dig.dig_T3 = -1000
    /\ log[10].ok /\ log[10].data = <<125, 142>> /\ h.dig.dig_P1 = 36477

\* C10: readTemp (3 bytes at 0xFA), readPressure (3 bytes at 0xF7) and each
\* channel of readAll (6 bytes at 0xF7) return b0 * 2^12 + b1 * 2^4 + the
\* high nibble of b2 for the bytes b0, b1, b2 in the buffer: a value in
\* 0..2^20-1 that the low nibble of b2 does not enter.
RawSampleAssembly ==
    /\ ret.call = "readTemp" =>
          /\ Len(log) = 1 /\ log[1].op = "Mem_Read" /\ log[1].reg = 250
          /\ Len(log[1].data) = 3 /\ ret.val = <<Sample20(log[1].data, 1)>>
    /\ ret.call = "readPressure" =>
          /\ Len(log) = 1 /\ log[1].op = "Mem_Read" /\ log[1].reg = 247
          /\ Len(log[1].data) = 3 /\ ret.val = <<Sample20(log[1].data, 1)>>
    /\ ret.call = "readAll" =>
          /\ Len(log) = 1 /\ log[1].op = "Mem_Read" /\ log[1].reg = 247
          /\ Len(log[1].data) = 6
          /\ ret.val = <<Sample20(log[1].data, 4), Sample20(log[1].data, 1)>>
    /\ ret.call \in {"readTemp", "readPressure", "readAll"} =>
          \A i \in DOMAIN ret.val : ret.val[i] \in 0..1048575

\* 0xAB 0xCD 0xEF read as 0xABCDE = 703710: the nibble 0xF is dropped.
RawSampleDropsLowNibble ==
    /\ ret.call = "readPressure"
    /\ log[1].ok /\ log[1].data = <<171, 205, 239>> /\ ret.val = <<703710>>

====
